---- MODULE Spec2Model ----
(***************************************************************************)
(* Form evaluation and risk scoring engine of RiskFormBuild:               *)
(*   utils/validation.ts      isFieldVisible, validateField, validateForm  *)
(*   utils/riskCalculation.ts calculateRiskScore                           *)
(*   utils/storage.ts         saveFormState, saveDraft, deleteDraft, ...   *)
(*                                                                         *)
(* JavaScript values are tagged records; strings are TLA+ strings, so      *)
(* template literals are \o and String.prototype.includes is a substring   *)
(* search.  localStorage holds the JSON image of what was written.         *)
(***************************************************************************)
EXTENDS Integers, Sequences, FiniteSets, TLC

VARIABLES
  questions,     \* validation: the Question[] handed to validateForm
  formConfig,    \* risk scoring: the FormConfig
  formValues,    \* the FormValues object (question id -> answer)
  result,        \* the last call and what it returned
  riskScore,     \* the RiskScore computed from formConfig and formValues
  localStorage,  \* storage: key -> stored JSON
  now,           \* storage: Date.now()
  calls,         \* storage: number of storage calls made so far
  callers        \* storage: where each caller stands inside its saveDraft

vars == <<questions, formConfig, formValues, result, riskScore,
          localStorage, now, calls, callers>>

(***************************************************************************)
(* JavaScript values                                                       *)
(***************************************************************************)
Undefined == [t |-> "undefined"]
Null      == [t |-> "null"]
Str(s)    == [t |-> "string", s |-> s]
Num(n)    == [t |-> "number", n |-> n]
Bool(b)   == [t |-> "boolean", b |-> b]
Arr(a)    == [t |-> "array", a |-> a]
\* a File object (lib.dom): name, MIME type and size in bytes
FileOf(name, mime, size) == [t |-> "file", name |-> name, mime |-> mime, size |-> size]
\* a plain object: property name -> value
Obj(o)    == [t |-> "object", o |-> o]
EmptyObj  == Obj(<<>>)

IsArray(v) == v.t = "array"

\* formValues[key]: a missing property reads as undefined
Get(obj, key) == IF key \in DOMAIN obj THEN obj[key] ELSE Undefined

RECURSIVE Join(_)
\* String(v)
ToStr(v) ==
  CASE v.t = "string"    -> v.s
    [] v.t = "number"    -> ToString(v.n)
    [] v.t = "boolean"   -> IF v.b THEN "true" ELSE "false"
    [] v.t = "null"      -> "null"
    [] v.t = "undefined" -> "undefined"
    [] v.t = "array"     -> Join(v.a)
    [] v.t = "file"      -> "[object File]"
    [] OTHER             -> "[object Object]"

\* Array.prototype.join(","): null and undefined elements print as ""
Join(a) ==
  IF Len(a) = 0 THEN ""
  ELSE LET h == IF a[1].t \in {"null", "undefined"} THEN ""
                ELSE IF a[1].t = "array" THEN Join(a[1].a) ELSE ToStr(a[1])
       IN IF Len(a) = 1 THEN h ELSE h \o "," \o Join(Tail(a))

\* haystack.includes(needle) for strings
StringIncludes(haystack, needle) ==
  \/ Len(needle) = 0
  \/ \E i \in 1..(Len(haystack) - Len(needle) + 1) :
        SubSeq(haystack, i, i + Len(needle) - 1) = needle

Digits == {"0", "1", "2", "3", "4", "5", "6", "7", "8", "9"}
IsDigits(s) == Len(s) > 0 /\ \A i \in 1..Len(s) : SubSeq(s, i, i) \in Digits
DigitOf(c) == CHOOSE d \in 0..9 : ToString(d) = c
RECURSIVE DigitsValue(_)
DigitsValue(s) ==
  IF Len(s) = 0 THEN 0
  ELSE 10 * DigitsValue(SubSeq(s, 1, Len(s) - 1)) + DigitOf(SubSeq(s, Len(s), Len(s)))

\* Number(v): [nan |-> TRUE] or [nan |-> FALSE, n |-> value].  The strings
\* of the model are "", unsigned decimal integers, or not numeric at all.
NaN == [nan |-> TRUE, n |-> 0]
NumberOfString(s) ==
  IF Len(s) = 0 THEN [nan |-> FALSE, n |-> 0]
  ELSE IF IsDigits(s) THEN [nan |-> FALSE, n |-> DigitsValue(s)]
  ELSE NaN
ToNumber(v) ==
  CASE v.t = "number"    -> [nan |-> FALSE, n |-> v.n]
    [] v.t = "string"    -> NumberOfString(v.s)
    [] v.t = "boolean"   -> [nan |-> FALSE, n |-> IF v.b THEN 1 ELSE 0]
    [] v.t = "null"      -> [nan |-> FALSE, n |-> 0]
    [] v.t = "undefined" -> NaN
    [] OTHER             -> NumberOfString(ToStr(v))

\* a > b and a < b on numbers: every comparison with NaN is false
NumGreater(a, b) == ~a.nan /\ ~b.nan /\ a.n > b.n
NumLess(a, b)    == ~a.nan /\ ~b.nan /\ a.n < b.n

\* a == b: operands of different types are compared as numbers
LooseEquals(a, b) ==
  /\ a.t \in {"undefined", "null", "string", "number", "boolean"}
  /\ b.t \in {"undefined", "null", "string", "number", "boolean"}
  /\ IF a.t = b.t THEN a = b
     ELSE IF a.t \in {"undefined", "null"} \/ b.t \in {"undefined", "null"}
          THEN a.t \in {"undefined", "null"} /\ b.t \in {"undefined", "null"}
          ELSE LET x == ToNumber(a)
                   y == ToNumber(b)
               IN ~x.nan /\ ~y.nan /\ x.n = y.n

\* a === b.  Arrays, files and objects are compared by reference; the two
\* operands of every === of the engine come from different objects (schema
\* and answers), so they are never the same reference.
StrictEquals(a, b) ==
  /\ a.t \in {"undefined", "null", "string", "number", "boolean"}
  /\ a = b

\* arr.includes(x) for an array arr
ArrayIncludes(arr, x) == \E i \in 1..Len(arr.a) : StrictEquals(arr.a[i], x)

\* answer.some((a) => currentValue.includes(a)) for arrays answer, currentValue
SomeIncluded(answer, currentValue) ==
  \E i \in 1..Len(answer.a) : ArrayIncludes(currentValue, answer.a[i])

\* value === null || value === ''
IsEmptyValueNotUndefined(v) == v = Null \/ v = Str("")

\* value === undefined || value === null || value === ''
IsEmptyValue(v) == v = Undefined \/ v = Null \/ v = Str("")

(***************************************************************************)
(* validation.ts: conditional visibility                                   *)
(***************************************************************************)
\* const { questionId, answer, operator = 'equals' } = question.conditional
OperatorOf(conditional) ==
  IF "operator" \in DOMAIN conditional THEN conditional.operator ELSE "equals"

\* the switch with a falsy current value (0, false) taken as empty
VisibleByOperatorTruthy(operator, answer, currentValue) ==
  IF currentValue \in {Num(0), Bool(FALSE)} THEN FALSE
  ELSE CASE operator = "equals" ->
              IF IsArray(answer)
              THEN IF IsArray(currentValue)
                   THEN SomeIncluded(answer, currentValue)
                   ELSE ArrayIncludes(answer, currentValue)
              ELSE StrictEquals(currentValue, answer)
         [] operator = "includes" ->
              IF IsArray(currentValue)
              THEN IF IsArray(answer)
                   THEN SomeIncluded(answer, currentValue)
                   ELSE ArrayIncludes(currentValue, answer)
              ELSE StringIncludes(ToStr(currentValue), ToStr(answer))
         [] operator = "greaterThan" ->
              NumGreater(ToNumber(currentValue), ToNumber(answer))
         [] operator = "lessThan" ->
              NumLess(ToNumber(currentValue), ToNumber(answer))
         [] OTHER -> TRUE

\* the switch of isFieldVisible once the empty guard has passed
VisibleByOperator(operator, answer, currentValue) ==
  CASE operator = "equals" ->
         IF IsArray(answer)
         THEN IF IsArray(currentValue)
              THEN SomeIncluded(answer, currentValue)
              ELSE ArrayIncludes(answer, currentValue)
         ELSE StrictEquals(currentValue, answer)
    [] operator = "includes" ->
         IF IsArray(currentValue)
         THEN IF IsArray(answer)
              THEN SomeIncluded(answer, currentValue)
              ELSE ArrayIncludes(currentValue, answer)
         ELSE StringIncludes(ToStr(currentValue), ToStr(answer))
    [] operator = "greaterThan" ->
         NumGreater(ToNumber(currentValue), ToNumber(answer))
    [] operator = "lessThan" ->
         NumLess(ToNumber(currentValue), ToNumber(answer))
    [] OTHER -> TRUE

\* isFieldVisible without its empty guard
isFieldVisibleNoGuard(question, values) ==
  IF "conditional" \notin DOMAIN question THEN TRUE
  ELSE LET c == question.conditional
       IN VisibleByOperator(OperatorOf(c), c.answer, Get(values, c.questionId))

isFieldVisible(question, values) ==
  IF "conditional" \notin DOMAIN question THEN TRUE
  ELSE LET c == question.conditional
           operator == OperatorOf(c)
           currentValue == Get(values, c.questionId)
       IN IF IsEmptyValue(currentValue) THEN FALSE
          ELSE VisibleByOperator(operator, c.answer, currentValue)

\* evaluateCondition(conditional, currentValue); conditional is Undefined
\* for a question without one
evaluateCondition(conditional, currentValue) ==
  IF conditional = Undefined THEN TRUE
  ELSE LET answer == conditional.answer
           operator == OperatorOf(conditional)
       IN CASE operator = "equals" ->
                 IF IsArray(answer)
                 THEN IF IsArray(currentValue)
                      THEN SomeIncluded(answer, currentValue)
                      ELSE ArrayIncludes(answer, currentValue)
                 ELSE StrictEquals(currentValue, answer)
            [] operator = "includes" ->
                 IF IsArray(currentValue)
                 THEN ArrayIncludes(currentValue, answer)
                 ELSE StringIncludes(ToStr(currentValue), ToStr(answer))
            [] operator = "greaterThan" ->
                 NumGreater(ToNumber(currentValue), ToNumber(answer))
            [] operator = "lessThan" ->
                 NumLess(ToNumber(currentValue), ToNumber(answer))
            [] OTHER -> FALSE

(***************************************************************************)
(* validation.ts: field and form validation                                *)
(***************************************************************************)
\* an optional property of a schema object that is absent reads as undefined
Has(obj, field) == field \in DOMAIN obj

\* question.required is truthy
IsRequired(question) == Has(question, "required") /\ question.required

\* value.length: [def |-> FALSE] stands for undefined
JsLength(v) ==
  CASE v.t = "string" -> [def |-> TRUE, n |-> Len(v.s)]
    [] v.t = "array"  -> [def |-> TRUE, n |-> Len(v.a)]
    [] OTHER          -> [def |-> FALSE, n |-> 0]

\* new RegExp(pattern).test(s) for the patterns the schemas of the model use
RegExpTest(pattern, s) ==
  CASE pattern = "^[0-9]+$" -> IsDigits(s)
    [] pattern = "^y"       -> Len(s) > 0 /\ SubSeq(s, 1, 1) = "y"
    [] OTHER                -> StringIncludes(s, pattern)

\* new Date(s).getTime() for a string s: a date-only ISO string YYYY-MM-DD
\* parses to its day (ordered as the calendar is), anything else is invalid
DateParse(s) ==
  IF /\ Len(s) = 10
     /\ IsDigits(SubSeq(s, 1, 4)) /\ SubSeq(s, 5, 5) = "-"
     /\ IsDigits(SubSeq(s, 6, 7)) /\ SubSeq(s, 8, 8) = "-"
     /\ IsDigits(SubSeq(s, 9, 10))
     /\ DigitsValue(SubSeq(s, 6, 7)) \in 1..12
     /\ DigitsValue(SubSeq(s, 9, 10)) \in 1..31
  THEN [nan |-> FALSE,
        n |-> DigitsValue(SubSeq(s, 1, 4)) * 372
              + DigitsValue(SubSeq(s, 6, 7)) * 31 + DigitsValue(SubSeq(s, 9, 10))]
  ELSE NaN

\* String.prototype.toLowerCase over the letters the model's strings use
LowerOf(c) ==
  CASE c = "P" -> "p" [] c = "D" -> "d" [] c = "F" -> "f"
    [] c = "N" -> "n" [] c = "G" -> "g" [] OTHER -> c
RECURSIVE ToLowerCase(_)
ToLowerCase(s) ==
  IF Len(s) = 0 THEN "" ELSE LowerOf(SubSeq(s, 1, 1)) \o ToLowerCase(SubSeq(s, 2, Len(s)))

\* s.split(sep) for a one-character separator
RECURSIVE SplitFrom(_, _, _)
SplitFrom(s, sep, acc) ==
  IF Len(s) = 0 THEN <<acc>>
  ELSE IF SubSeq(s, 1, 1) = sep
       THEN <<acc>> \o SplitFrom(SubSeq(s, 2, Len(s)), sep, "")
       ELSE SplitFrom(SubSeq(s, 2, Len(s)), sep, acc \o SubSeq(s, 1, 1))
Split(s, sep) == SplitFrom(s, sep, "")

\* String.prototype.trim (spaces)
RECURSIVE Trim(_)
Trim(s) ==
  IF Len(s) > 0 /\ SubSeq(s, 1, 1) = " " THEN Trim(SubSeq(s, 2, Len(s)))
  ELSE IF Len(s) > 0 /\ SubSeq(s, Len(s), Len(s)) = " " THEN Trim(SubSeq(s, 1, Len(s) - 1))
  ELSE s

StartsWith(s, p) == Len(s) >= Len(p) /\ SubSeq(s, 1, Len(p)) = p

\* validateFileUpload(file, fileQuestion): an error string or null
validateFileUpload(file, fileQuestion) ==
  LET acceptedTypes == IF Has(fileQuestion, "accept") /\ fileQuestion.accept # ""
                       THEN Split(fileQuestion.accept, ",") ELSE <<>>
      parts == Split(file.name, ".")
      fileExtension == "." \o ToLowerCase(parts[Len(parts)])
      isAccepted == \E i \in 1..Len(acceptedTypes) :
                      LET type == Trim(acceptedTypes[i])
                      IN IF StartsWith(type, ".")
                         THEN ToLowerCase(fileExtension) = ToLowerCase(type)
                         ELSE StringIncludes(file.mime, type)
  IN IF Has(fileQuestion, "accept") /\ fileQuestion.accept # "" /\ ~isAccepted
     THEN Str("File type not supported. Accepted types: " \o fileQuestion.accept)
     ELSE IF /\ Has(fileQuestion, "maxSize") /\ fileQuestion.maxSize # 0
             /\ file.size > fileQuestion.maxSize * 1024 * 1024
          THEN Str("File size exceeds " \o ToString(fileQuestion.maxSize) \o "MB limit")
          ELSE Null

\* for (const file of value) { const e = validateFileUpload(file, q); if (e) return e }
RECURSIVE FirstFileError(_, _)
FirstFileError(files, fileQuestion) ==
  IF Len(files) = 0 THEN Null
  ELSE LET e == validateFileUpload(files[1], fileQuestion)
       IN IF e # Null THEN e ELSE FirstFileError(Tail(files), fileQuestion)

\* rule.validate(value) for the validator functions the schemas of the model
\* carry: each returns true, false or a message
CallValidate(name, value) ==
  CASE name = "notTest"  -> IF value = Str("test") THEN Str("Value cannot be test") ELSE Bool(TRUE)
    [] name = "isDigits" -> Bool(IsDigits(ToStr(value)))
    [] OTHER             -> Bool(TRUE)

\* the custom-rule loop of validateField: the first failing rule decides
RECURSIVE CustomRuleError(_, _)
CustomRuleError(rules, value) ==
  IF Len(rules) = 0 THEN Null
  ELSE LET rule == rules[1]
       IN IF rule.type = "custom" /\ Has(rule, "validate")
          THEN LET r == CallValidate(rule.validate, value)
               IN IF r # Bool(TRUE)
                  THEN IF r.t = "string" THEN r ELSE Str(rule.message)
                  ELSE CustomRuleError(Tail(rules), value)
          ELSE CustomRuleError(Tail(rules), value)

\* the switch (question.type) of validateField: [done |-> TRUE, error |-> e]
\* when the case returns e, [done |-> FALSE] when it breaks
TypeCheck(question, value) ==
  LET ret(e) == [done |-> TRUE, error |-> e]
      brk    == [done |-> FALSE, error |-> Null]
      len    == JsLength(value)
  IN CASE question.type = "text" ->
            IF /\ Has(question, "minLength") /\ question.minLength # 0
               /\ len.def /\ len.n < question.minLength
            THEN ret(Str("Minimum length is " \o ToString(question.minLength) \o " characters"))
            ELSE IF /\ Has(question, "maxLength") /\ question.maxLength # 0
                    /\ len.def /\ len.n > question.maxLength
            THEN ret(Str("Maximum length is " \o ToString(question.maxLength) \o " characters"))
            ELSE IF /\ Has(question, "pattern") /\ question.pattern # ""
                    /\ ~RegExpTest(question.pattern, ToStr(value))
            THEN ret(Str("Invalid format for " \o question.label))
            ELSE brk
       [] question.type = "number" ->
            LET numValue == ToNumber(value)
            IN IF numValue.nan THEN ret(Str("Please enter a valid number"))
               ELSE IF Has(question, "min") /\ numValue.n < question.min
               THEN ret(Str("Minimum value is " \o ToString(question.min)))
               ELSE IF Has(question, "max") /\ numValue.n > question.max
               THEN ret(Str("Maximum value is " \o ToString(question.max)))
               ELSE brk
       [] question.type = "date" ->
            LET dateValue == DateParse(ToStr(value))
            IN IF dateValue.nan THEN ret(Str("Please enter a valid date"))
               ELSE IF /\ Has(question, "minDate") /\ question.minDate # ""
                       /\ NumLess(dateValue, DateParse(question.minDate))
               THEN ret(Str("Date cannot be before " \o question.minDate))
               ELSE IF /\ Has(question, "maxDate") /\ question.maxDate # ""
                       /\ NumGreater(dateValue, DateParse(question.maxDate))
               THEN ret(Str("Date cannot be after " \o question.maxDate))
               ELSE brk
       [] question.type = "file" ->
            IF IsArray(value)
            THEN LET e == FirstFileError(value.a, question)
                 IN IF e # Null THEN ret(e) ELSE brk
            ELSE IF value.t = "file" THEN ret(validateFileUpload(value, question))
            ELSE brk
       [] question.type \in {"select", "checkbox"} ->
            IF IsArray(value) /\ Len(value.a) = 0 /\ IsRequired(question)
            THEN ret(Str("Please select at least one option for " \o question.label))
            ELSE brk
       [] OTHER -> brk

\* the rules whose validate the custom-rule loop calls, in the order of the
\* calls
RECURSIVE CustomRuleCalls(_, _)
CustomRuleCalls(rules, value) ==
  IF Len(rules) = 0 THEN <<>>
  ELSE LET rule == rules[1]
       IN IF rule.type = "custom" /\ Has(rule, "validate")
          THEN <<rule>> \o (IF CallValidate(rule.validate, value) # Bool(TRUE)
                            THEN <<>> ELSE CustomRuleCalls(Tail(rules), value))
          ELSE CustomRuleCalls(Tail(rules), value)

\* what a call of validateField runs: whether the switch on the type is
\* entered, and the rules whose validate is called
validateFieldRuns(question, value, isVisible) ==
  IF ~isVisible \/ IsEmptyValue(value)
  THEN [typeChecked |-> FALSE, executed |-> <<>>]
  ELSE [typeChecked |-> TRUE,
        executed |-> IF TypeCheck(question, value).done \/ ~Has(question, "validation")
                     THEN <<>> ELSE CustomRuleCalls(question.validation, value)]

\* validateField that leaves the custom rules out
ValidateVisibleFieldNoRules(question, value) ==
  IF IsRequired(question) /\ IsEmptyValue(value)
  THEN Str(question.label \o " is required")
  ELSE IF ~IsRequired(question) /\ IsEmptyValue(value) THEN Null
  ELSE TypeCheck(question, value).error

\* validateField after its visibility guard
ValidateVisibleField(question, value) ==
  IF IsRequired(question) /\ IsEmptyValue(value)
  THEN Str(question.label \o " is required")
  ELSE IF ~IsRequired(question) /\ IsEmptyValue(value) THEN Null
  ELSE LET tc == TypeCheck(question, value)
       IN IF tc.done THEN tc.error
          ELSE IF Has(question, "validation")
               THEN CustomRuleError(question.validation, value)
               ELSE Null

\* validateField ignoring isVisible
validateFieldAlways(question, value, isVisible) ==
  ValidateVisibleField(question, value)

\* validateField(question, value, isVisible): an error string or null
validateField(question, value, isVisible) ==
  IF ~isVisible THEN Null ELSE ValidateVisibleField(question, value)

\* if (error): a non-empty string
Truthy(v) ==
  CASE v.t \in {"undefined", "null"} -> FALSE
    [] v.t = "string"  -> v.s # ""
    [] v.t = "number"  -> v.n # 0
    [] v.t = "boolean" -> v.b
    [] OTHER           -> TRUE

\* the error validateForm computes for one question
FormError(question, values) ==
  validateField(question, Get(values, question.id), isFieldVisible(question, values))

\* validateForm(questions, formValues): question id -> error, over the
\* questions that have one (a later question with the same id overwrites)
validateForm(qs, values) ==
  LET idx(id) == CHOOSE i \in 1..Len(qs) :
                   /\ qs[i].id = id /\ Truthy(FormError(qs[i], values))
                   /\ \A j \in (i + 1)..Len(qs) :
                        ~(qs[j].id = id /\ Truthy(FormError(qs[j], values)))
      ids == {qs[i].id : i \in {j \in 1..Len(qs) : Truthy(FormError(qs[j], values))}}
  IN [id \in ids |-> FormError(qs[idx(id)], values).s]

\* getVisibleQuestions(questions, formValues)
getVisibleQuestions(qs, values) ==
  SelectSeq(qs, LAMBDA q : isFieldVisible(q, values))

(***************************************************************************)
(* Inputs of the validation engine                                         *)
(***************************************************************************)
MaxQuestions == 2

\* the empty object {}
NoValues == [k \in {} |-> Undefined]

\* the conditional operators a schema can carry; "matches" is not one the
\* evaluator knows
Operators == {"equals", "includes", "greaterThan", "lessThan", "matches"}

ConditionAnswers ==
  {Str(""), Str("yes"), Str("es"), Str("5"), Num(0), Num(5), Bool(TRUE),
   Arr(<<Str("yes")>>), Arr(<<Str("no"), Str("x")>>)}

\* what values[conditional.questionId] can be
ReferencedValues ==
  {Undefined, Null, Str(""), Str("yes"), Str("no"), Str("5"), Str("10"),
   Num(0), Num(5), Num(10), Bool(TRUE), Bool(FALSE),
   Arr(<<>>), Arr(<<Str("yes")>>), Arr(<<Str("5"), Str("no")>>)}

Conditionals ==
  [questionId : {"q1"}, answer : ConditionAnswers, operator : Operators]
    \cup [questionId : {"q1"}, answer : ConditionAnswers]

\* the question of validation.test.ts "should show field when condition is met"
ConditionalQuestion(c) ==
  [id |-> "q2", type |-> "text", label |-> "Question", conditional |-> c]

\* a questionnaire with every question type, required and optional
\* questions, and questions shown on a condition on q1
QuestionPool ==
  << [id |-> "q1", type |-> "select", label |-> "Incident", required |-> TRUE,
      options |-> <<Str("yes"), Str("no")>>],
     [id |-> "q2", type |-> "text", label |-> "Details", required |-> TRUE,
      minLength |-> 3, maxLength |-> 5,
      conditional |-> [questionId |-> "q1", answer |-> Str("yes")]],
     [id |-> "q3", type |-> "number", label |-> "Age", min |-> 18, max |-> 65],
     [id |-> "q4", type |-> "text", label |-> "Code", required |-> FALSE,
      pattern |-> "^[0-9]+$",
      validation |-> << [type |-> "pattern", message |-> "digits only"],
                        [type |-> "custom", message |-> "not allowed",
                         validate |-> "notTest"] >>],
     [id |-> "q5", type |-> "checkbox", label |-> "Controls", required |-> TRUE,
      options |-> <<Str("a"), Str("b")>>,
      conditional |-> [questionId |-> "q1", answer |-> Str("no"),
                       operator |-> "includes"]],
     [id |-> "q6", type |-> "date", label |-> "Since", required |-> TRUE,
      minDate |-> "2020-01-01", maxDate |-> "2024-12-31"],
     [id |-> "q7", type |-> "file", label |-> "Evidence",
      accept |-> ".pdf, image/", maxSize |-> 1],
     [id |-> "q8", type |-> "text", label |-> "Name", required |-> TRUE],
     [id |-> "q9", type |-> "text", label |-> "Reference", minLength |-> 2,
      validation |-> << [type |-> "pattern", message |-> "digits only",
                         validate |-> "isDigits"],
                        [type |-> "custom", message |-> "not allowed",
                         validate |-> "notTest"],
                        [type |-> "custom", message |-> "digits please",
                         validate |-> "isDigits"] >>] >>

\* the answers tried for each question of the pool
AnswersFor(id) ==
  CASE id = "q1" -> {Str(""), Str("yes"), Str("no")}
    [] id = "q2" -> {Str("ab"), Str("abcd"), Str("abcdefg")}
    [] id = "q3" -> {Num(10), Num(25), Num(100), Str("abc")}
    [] id = "q4" -> {Str("123"), Str("test"), Str("x1")}
    [] id = "q5" -> {Arr(<<>>), Arr(<<Str("a")>>)}
    [] id = "q6" -> {Str("2024-01-15"), Str("2019-12-31"), Str("soon")}
    [] id = "q7" -> {Arr(<<FileOf("report.PDF", "application/pdf", 1000)>>),
                     Arr(<<FileOf("scan.png", "image/png", 2000000)>>),
                     FileOf("run.exe", "application/octet-stream", 10)}
    [] id = "q9" -> {Str(""), Str("7"), Str("123"), Str("test"), Str("x1")}
    [] OTHER     -> {Str(""), Str("John")}

\* the lists of 1..MaxQuestions pool questions, in pool order
RECURSIVE ListsFrom(_, _)
ListsFrom(i, n) ==
  IF n = 0 \/ i > Len(QuestionPool) THEN {<<>>}
  ELSE ListsFrom(i + 1, n)
         \cup {<<QuestionPool[i]>> \o l : l \in ListsFrom(i + 1, n - 1)}
QuestionLists == ListsFrom(1, MaxQuestions) \ {<<>>}

IdsOf(qs) == {qs[i].id : i \in 1..Len(qs)}

\* the objects that answer some of the given questions
RECURSIVE ValuesOver(_)
ValuesOver(ids) ==
  IF ids = {} THEN {NoValues}
  ELSE LET id == CHOOSE x \in ids : TRUE
           rest == ValuesOver(ids \ {id})
       IN rest \cup {(id :> a) @@ v : a \in AnswersFor(id), v \in rest}
FormValuesFor(qs) == ValuesOver(IdsOf(qs) \cup {"q1"})

(***************************************************************************)
(* Calls of the validation engine                                          *)
(***************************************************************************)
\* the callers that share the store (two tabs of the origin), and a caller
\* that is in no call
Callers == {"A", "B"}
IdleCaller == [pc |-> "idle", values |-> NoValues, draftsList |-> <<>>, raced |-> FALSE]
NoCallers == [c \in Callers |-> IdleCaller]

storageIdle == /\ localStorage = NoValues /\ now = 0 /\ calls = 0 /\ callers = NoCallers
riskIdle    == /\ formConfig = NoValues /\ riskScore = NoValues

\* one conditional question and the answer it refers to
InitVisible ==
  /\ \E c \in Conditionals : questions = <<ConditionalQuestion(c)>>
  /\ \E v \in ReferencedValues :
       formValues = IF v = Undefined THEN NoValues ELSE [k \in {"q1"} |-> v]
  /\ result = [op |-> "none"]
  /\ storageIdle /\ riskIdle

\* a list of questions of the pool and answers to some of them
InitValidate ==
  /\ questions \in QuestionLists
  /\ formValues \in FormValuesFor(questions)
  /\ result = [op |-> "none"]
  /\ storageIdle /\ riskIdle

CallIsFieldVisible(i) ==
  /\ result' = [op |-> "isFieldVisible", i |-> i,
                ret |-> isFieldVisible(questions[i], formValues)]
  /\ UNCHANGED <<callers, questions, formConfig, formValues, riskScore, localStorage, now, calls>>

CallValidateField(i, isVisible) ==
  /\ result' = [op |-> "validateField", i |-> i, isVisible |-> isVisible,
                runs |-> validateFieldRuns(questions[i], Get(formValues, questions[i].id),
                                           isVisible),
                ret |-> validateField(questions[i], Get(formValues, questions[i].id),
                                      isVisible)]
  /\ UNCHANGED <<callers, questions, formConfig, formValues, riskScore, localStorage, now, calls>>

\* the conditional of the question is evaluated on the answer it refers to
CallEvaluateCondition(i) ==
  /\ result' = [op |-> "evaluateCondition", i |-> i,
                ret |-> IF Has(questions[i], "conditional")
                        THEN evaluateCondition(questions[i].conditional,
                               Get(formValues, questions[i].conditional.questionId))
                        ELSE evaluateCondition(Undefined, Undefined)]
  /\ UNCHANGED <<callers, questions, formConfig, formValues, riskScore, localStorage, now, calls>>

CallValidateForm ==
  /\ result' = [op |-> "validateForm", ret |-> validateForm(questions, formValues)]
  /\ UNCHANGED <<callers, questions, formConfig, formValues, riskScore, localStorage, now, calls>>

CallGetVisibleQuestions ==
  /\ result' = [op |-> "getVisibleQuestions",
                ret |-> getVisibleQuestions(questions, formValues)]
  /\ UNCHANGED <<callers, questions, formConfig, formValues, riskScore, localStorage, now, calls>>

NextValidate ==
  \/ \E i \in 1..Len(questions) : CallIsFieldVisible(i)
  \/ \E i \in 1..Len(questions) : CallEvaluateCondition(i)
  \/ \E i \in 1..Len(questions) : \E isVisible \in BOOLEAN : CallValidateField(i, isVisible)
  \/ CallValidateForm
  \/ CallGetVisibleQuestions

SpecVisible  == InitVisible /\ [][NextValidate]_vars
SpecValidate == InitValidate /\ [][NextValidate]_vars

(***************************************************************************)
(* Properties of the validation engine                                     *)
(***************************************************************************)
\* the question and the referenced answer of the last isFieldVisible call
Asked == questions[result.i]
Referenced == Get(formValues, Asked.conditional.questionId)
ReferencedIsEmpty == Referenced \in {Undefined, Null, Str("")}
\* scalars are === exactly when they have the same type and the same value
EqualsOnScalar ==
  /\ result.op = "isFieldVisible"
  /\ Has(Asked, "conditional")
  /\ OperatorOf(Asked.conditional) = "equals"
  /\ ~IsArray(Asked.conditional.answer)

\* C1 as stated: with operator equals and a scalar answer the field is
\* visible iff the referenced value === answer, and it is hidden when the
\* referenced value is '', null or undefined.
C1_EqualsIffStrictlyEqual ==
  EqualsOnScalar =>
    /\ result.ret <=> Referenced = Asked.conditional.answer
    /\ ReferencedIsEmpty => ~result.ret

\* C1 amended: with operator equals and a scalar answer the field is visible
\* iff the referenced value is none of '', null, undefined and === answer.
C1_EqualsIffPresentAndEqual ==
  EqualsOnScalar =>
    (result.ret <=> /\ ~ReferencedIsEmpty
                    /\ Referenced = Asked.conditional.answer)

C1_Witness ==
  /\ EqualsOnScalar
  /\ "operator" \notin DOMAIN Asked.conditional
  /\ Referenced = Str("yes")
  /\ result.ret

\* C2: whatever the operator, known or not, a field whose condition refers
\* to an answer that is undefined, null or '' is not visible.
C2_EmptyGuardWins ==
  (/\ result.op = "isFieldVisible"
   /\ Has(Asked, "conditional")
   /\ ReferencedIsEmpty) => ~result.ret

C2_Witness ==
  /\ result.op = "isFieldVisible"
  /\ Has(Asked, "conditional")
  /\ OperatorOf(Asked.conditional) = "matches"
  /\ Referenced = Str("")
  /\ ~result.ret

\* C3: validateField with isVisible = false returns null, and validateForm
\* has no entry for a question that isFieldVisible hides.
C3_HiddenNeverValidated ==
  /\ (result.op = "validateField" /\ ~result.isVisible) => result.ret = Null
  /\ result.op = "validateForm" =>
       \A i \in 1..Len(questions) :
          ~isFieldVisible(questions[i], formValues) => questions[i].id \notin DOMAIN result.ret

\* a hidden required question with a too short answer, and one with none
C3_Witness ==
  /\ result.op = "validateForm"
  /\ \E i \in 1..Len(questions) :
       /\ questions[i].id = "q2"
       /\ ~isFieldVisible(questions[i], formValues)
       /\ Get(formValues, "q2") = Str("ab")
  /\ "q2" \notin DOMAIN result.ret

AllRequired == \A i \in 1..Len(questions) : IsRequired(questions[i])
Unconditional == {questions[i].id : i \in {j \in 1..Len(questions) : ~Has(questions[j], "conditional")}}

\* C4 as stated: validateForm(questions, {}) over N required questions has
\* exactly N entries.
C4_OneEntryPerRequired ==
  (result.op = "validateForm" /\ formValues = NoValues /\ AllRequired) =>
     Cardinality(DOMAIN result.ret) = Len(questions)

\* C4 amended: validateForm(questions, {}) over N required questions has
\* exactly one entry for each of them that has no conditional (N entries
\* when none has one), and none for a question with a conditional.
C4_OneEntryPerUnconditionalRequired ==
  (result.op = "validateForm" /\ formValues = NoValues /\ AllRequired) =>
     /\ DOMAIN result.ret = Unconditional
     /\ Cardinality(DOMAIN result.ret) = Cardinality(Unconditional)

C4_Witness ==
  /\ result.op = "validateForm" /\ formValues = NoValues /\ AllRequired
  /\ Len(questions) = 2
  /\ Unconditional = IdsOf(questions)
  /\ Cardinality(DOMAIN result.ret) = 2

KnownOperators == {"equals", "includes", "greaterThan", "lessThan"}

\* C17: on a referenced value that is not undefined, null or '',
\* evaluateCondition gives what isFieldVisible gives under equals, includes,
\* greaterThan and lessThan; under an unknown operator isFieldVisible is
\* true and evaluateCondition is false.
C17_EvaluatorsAgree ==
  (result.op = "evaluateCondition" /\ ~ReferencedIsEmpty) =>
     IF OperatorOf(Asked.conditional) \in KnownOperators
     THEN result.ret = isFieldVisible(Asked, formValues)
     ELSE ~result.ret /\ isFieldVisible(Asked, formValues)

\* C18 as stated: a condition on an answer that is the number 0 is hidden
\* under every operator.
C18_ZeroIsHidden ==
  (result.op = "isFieldVisible" /\ Referenced = Num(0)) => ~result.ret

\* what the operator table gives for the current value 0
ZeroSatisfies(operator, answer) ==
  CASE operator = "equals" ->
         IF IsArray(answer) THEN \E i \in 1..Len(answer.a) : answer.a[i] = Num(0)
         ELSE answer = Num(0)
    [] operator = "includes" -> StringIncludes("0", ToStr(answer))
    [] operator = "greaterThan" -> ~ToNumber(answer).nan /\ 0 > ToNumber(answer).n
    [] operator = "lessThan" -> ~ToNumber(answer).nan /\ 0 < ToNumber(answer).n
    [] OTHER -> TRUE

\* C18: the number 0 is not taken as empty: a condition on an answer that is
\* 0 is decided by its operator, so it is visible under lessThan with answer
\* 5 and hidden under greaterThan with answer 5.
C18_ZeroIsDecidedByOperator ==
  (result.op = "isFieldVisible" /\ Referenced = Num(0)) =>
     result.ret = ZeroSatisfies(OperatorOf(Asked.conditional), Asked.conditional.answer)

\* the answer is 0 and the condition lessThan 5 shows the question
C18_Witness ==
  /\ result.op = "isFieldVisible" /\ Referenced = Num(0)
  /\ OperatorOf(Asked.conditional) = "lessThan" /\ Asked.conditional.answer = Num(5)
  /\ result.ret

\* the custom rules of a question that carry a validate function
CustomRules(question) ==
  IF Has(question, "validation")
  THEN SelectSeq(question.validation, LAMBDA r : r.type = "custom" /\ Has(r, "validate"))
  ELSE <<>>

RECURSIVE Gcd(_, _)
Gcd(a, b) == IF b = 0 THEN a ELSE Gcd(b, a % b)
Abs(x) == IF x < 0 THEN -x ELSE x
Rat(n, d) ==
  LET g == Gcd(Abs(n), Abs(d))
      sgn == IF d < 0 THEN -1 ELSE 1
  IN [n |-> sgn * (n \div g), d |-> sgn * (d \div g)]
Int2Rat(i) == [n |-> i, d |-> 1]
RatAdd(x, y) == Rat(x.n * y.d + y.n * x.d, x.d * y.d)
RatMul(x, y) == Rat(x.n * y.n, x.d * y.d)
RatDiv(x, y) == Rat(x.n * y.d, x.d * y.n)
RatGeq(x, y) == x.n * y.d >= y.n * x.d
\* Math.round: the nearest integer, halves rounded up
MathRound(x) == (2 * x.n + x.d) \div (2 * x.d)

\* question.riskWeight || 0
WeightOf(question) == IF Has(question, "riskWeight") THEN question.riskWeight ELSE 0

\* question.options.find(opt => typeof opt === 'string' ? opt === val : opt.value === val):
\* the index of the first match, 0 when there is none
FindOption(options, val) ==
  LET matches(i) == IF options[i].t = "string" THEN StrictEquals(options[i], val)
                    ELSE StrictEquals(Str(options[i].value), val)
      hits == {i \in 1..Len(options) : matches(i)}
  IN IF hits = {} THEN 0 ELSE CHOOSE i \in hits : \A j \in hits : i <= j

\* (option as any)?.riskValue || weight
OptionRisk(options, val, weight) ==
  LET i == FindOption(options, val)
  IN IF /\ i # 0 /\ options[i].t # "string" /\ Has(options[i], "riskValue")
        /\ options[i].riskValue # 0
     THEN options[i].riskValue ELSE weight

RECURSIVE SumRisk(_, _, _)
\* riskValues.reduce((a, b) => a + b, 0) over the mapped answer
SumRisk(options, vals, weight) ==
  IF Len(vals) = 0 THEN 0
  ELSE OptionRisk(options, vals[1], weight) + SumRisk(options, Tail(vals), weight)

\* calculateQuestionRiskScore without its guard on empty answers
calculateQuestionRiskScoreAnswered(question, answer) ==
  Int2Rat(WeightOf(question))

calculateQuestionRiskScore(question, answer) ==
  IF ~Truthy(answer) \/ answer = Str("") \/ (IsArray(answer) /\ Len(answer.a) = 0)
  THEN Int2Rat(0)
  ELSE LET weight == WeightOf(question)
       IN IF question.type \in {"select", "checkbox"} /\ Has(question, "options")
          THEN IF question.type = "checkbox" /\ IsArray(answer)
               THEN IF Len(answer.a) > 0
                    THEN Rat(SumRisk(question.options, answer.a, weight), Len(answer.a))
                    ELSE Int2Rat(weight)
               ELSE Int2Rat(OptionRisk(question.options, answer, weight))
          ELSE Int2Rat(weight)

RECURSIVE SumScores(_, _)
\* the score a list of questions adds to sectionScore and totalScore
SumScores(qs, values) ==
  IF Len(qs) = 0 THEN Int2Rat(0)
  ELSE RatAdd(calculateQuestionRiskScore(qs[1], Get(values, qs[1].id)),
              SumScores(Tail(qs), values))

RECURSIVE SumWeights(_)
\* what a list of questions adds to sectionMaxScore and maxScore
SumWeights(qs) ==
  IF Len(qs) = 0 THEN 0 ELSE WeightOf(qs[1]) + SumWeights(Tail(qs))

RECURSIVE SumAnsweredWeights(_, _)
\* the weights of the answered questions only
SumAnsweredWeights(qs, values) ==
  IF Len(qs) = 0 THEN 0
  ELSE (IF Get(values, qs[1].id) = Undefined THEN 0 ELSE WeightOf(qs[1]))
         + SumAnsweredWeights(Tail(qs), values)

RECURSIVE AllQuestions(_)
AllQuestions(sections) ==
  IF Len(sections) = 0 THEN <<>>
  ELSE sections[1].questions \o AllQuestions(Tail(sections))

\* (score / max) * 100, or 0 when max is not positive
Percentage(score, max) ==
  IF max > 0 THEN RatMul(RatDiv(score, Int2Rat(max)), Int2Rat(100)) ELSE Int2Rat(0)

\* formConfig.maxRiskScore ?? 100
MaxScoreConfigNullish(config) ==
  IF Has(config, "maxRiskScore") THEN config.maxRiskScore ELSE 100

\* formConfig.maxRiskScore || 100
MaxScoreConfig(config) ==
  IF Has(config, "maxRiskScore") /\ config.maxRiskScore # 0 THEN config.maxRiskScore ELSE 100

\* the RiskScore with the level read off the rounded score
RiskScoreOfRoundedLevel(config, values, totalScore, maxScore) ==
  LET maxScoreConfig == MaxScoreConfig(config)
      percentage == Percentage(totalScore, maxScore)
      normalizedScore == RatMul(RatDiv(percentage, Int2Rat(100)), Int2Rat(maxScoreConfig))
      level == IF MathRound(normalizedScore) >= 75 THEN "Critical"
               ELSE IF MathRound(normalizedScore) >= 50 THEN "High"
               ELSE IF MathRound(normalizedScore) >= 25 THEN "Medium"
               ELSE "Low"
      sectionOf(id) == CHOOSE i \in 1..Len(config.sections) :
                         /\ config.sections[i].id = id
                         /\ \A j \in (i + 1)..Len(config.sections) : config.sections[j].id # id
  IN [totalScore |-> MathRound(normalizedScore),
      maxScore   |-> maxScoreConfig,
      percentage |-> MathRound(percentage),
      level      |-> level,
      breakdown  |->
        [id \in {config.sections[i].id : i \in 1..Len(config.sections)} |->
           LET qs == config.sections[sectionOf(id)].questions
               sectionScore == SumScores(qs, values)
               sectionMaxScore == SumWeights(qs)
           IN [score      |-> sectionScore,
               maxScore   |-> sectionMaxScore,
               percentage |-> Percentage(sectionScore, sectionMaxScore)]]]

\* the RiskScore built from the raw sums
RiskScoreOf(config, values, totalScore, maxScore) ==
  LET maxScoreConfig == MaxScoreConfig(config)
      percentage == Percentage(totalScore, maxScore)
      normalizedScore == RatMul(RatDiv(percentage, Int2Rat(100)), Int2Rat(maxScoreConfig))
      level == IF RatGeq(normalizedScore, Int2Rat(75)) THEN "Critical"
               ELSE IF RatGeq(normalizedScore, Int2Rat(50)) THEN "High"
               ELSE IF RatGeq(normalizedScore, Int2Rat(25)) THEN "Medium"
               ELSE "Low"
      sectionOf(id) == CHOOSE i \in 1..Len(config.sections) :
                         /\ config.sections[i].id = id
                         /\ \A j \in (i + 1)..Len(config.sections) : config.sections[j].id # id
  IN [totalScore |-> MathRound(normalizedScore),
      maxScore   |-> maxScoreConfig,
      percentage |-> MathRound(percentage),
      level      |-> level,
      breakdown  |->
        [id \in {config.sections[i].id : i \in 1..Len(config.sections)} |->
           LET qs == config.sections[sectionOf(id)].questions
               sectionScore == SumScores(qs, values)
               sectionMaxScore == SumWeights(qs)
           IN [score      |-> sectionScore,
               maxScore   |-> sectionMaxScore,
               percentage |-> Percentage(sectionScore, sectionMaxScore)]]]

\* calculateRiskScore with the maximum taken over the answered questions
calculateRiskScoreAnsweredMax(config, values) ==
  RiskScoreOf(config, values, SumScores(AllQuestions(config.sections), values),
              SumAnsweredWeights(AllQuestions(config.sections), values))

\* calculateRiskScore over the visible questions only
calculateRiskScoreVisibleOnly(config, values) ==
  LET shown == [config EXCEPT !.sections =
                  [i \in 1..Len(config.sections) |->
                     [config.sections[i] EXCEPT !.questions =
                        SelectSeq(config.sections[i].questions,
                                  LAMBDA q : isFieldVisible(q, values))]]]
  IN RiskScoreOf(shown, values, SumScores(AllQuestions(shown.sections), values),
                 SumWeights(AllQuestions(shown.sections)))

calculateRiskScore(config, values) ==
  RiskScoreOf(config, values, SumScores(AllQuestions(config.sections), values),
              SumWeights(AllQuestions(config.sections)))

(***************************************************************************)
(* Inputs and calls of the risk scoring engine                             *)
(***************************************************************************)
MaxRiskQuestions == 2

\* { label, value, riskValue? }
Option(value) == [t |-> "option", label |-> value, value |-> value]
RiskOption(value, riskValue) ==
  [t |-> "option", label |-> value, value |-> value, riskValue |-> riskValue]

\* q1 and q2 are the questions of riskCalculation.test.ts; the options of q3
\* carry risk values on the 0-100 scale of the README, above and below the
\* weight of the question
RiskPool ==
  << [id |-> "q1", type |-> "select", label |-> "Question 1", riskWeight |-> 10,
      options |-> <<RiskOption("yes", 0), RiskOption("no", 10)>>],
     [id |-> "q2", type |-> "number", label |-> "Question 2", riskWeight |-> 5],
     [id |-> "q3", type |-> "checkbox", label |-> "Question 3", riskWeight |-> 6,
      options |-> <<RiskOption("a", 1), RiskOption("b", 20), Option("c"), RiskOption("z", 0)>>],
     [id |-> "q4", type |-> "select", label |-> "Question 4", riskWeight |-> 5,
      options |-> <<Str("x"), Str("y")>>,
      conditional |-> [questionId |-> "q1", answer |-> Str("no")]],
     [id |-> "q5", type |-> "text", label |-> "Question 5"] >>

RiskAnswersFor(id) ==
  CASE id = "q1" -> {Str(""), Str("yes"), Str("no"), Str("maybe")}
    [] id = "q2" -> {Num(0), Num(7)}
    [] id = "q3" -> {Arr(<<>>), Arr(<<Str("z"), Str("a")>>), Arr(<<Str("a"), Str("b")>>),
                     Arr(<<Str("c"), Str("zz")>>)}
    [] id = "q4" -> {Str("x"), Arr(<<Str("x")>>)}
    [] OTHER     -> {Str("hello"), Bool(FALSE)}

\* the lists of 1..n pool questions, in pool order
RECURSIVE RiskListsFrom(_, _)
RiskListsFrom(i, n) ==
  IF n = 0 \/ i > Len(RiskPool) THEN {<<>>}
  ELSE RiskListsFrom(i + 1, n)
         \cup {<<RiskPool[i]>> \o l : l \in RiskListsFrom(i + 1, n - 1)}

Section(id, qs) == [id |-> id, title |-> id, questions |-> qs]

\* a list of questions as one section, or cut into two
SectionsOf(qs) ==
  {<<Section("section1", qs)>>}
    \cup {<<Section("section1", SubSeq(qs, 1, k)), Section("section2", SubSeq(qs, k + 1, Len(qs)))>> :
            k \in 1..(Len(qs) - 1)}

RiskSections == UNION {SectionsOf(qs) : qs \in RiskListsFrom(1, MaxRiskQuestions) \ {<<>>}}

\* maxRiskScore is optional
RiskConfigs ==
  [id : {"test-form"}, title : {"Test Form"}, sections : RiskSections]
    \cup [id : {"test-form"}, title : {"Test Form"}, sections : RiskSections,
          maxRiskScore : {0, 99, 100, 200}]

\* the objects that answer some of the given questions
RECURSIVE RiskValuesOver(_)
RiskValuesOver(ids) ==
  IF ids = {} THEN {NoValues}
  ELSE LET id == CHOOSE x \in ids : TRUE
           rest == RiskValuesOver(ids \ {id})
       IN rest \cup {(id :> a) @@ v : a \in RiskAnswersFor(id), v \in rest}
RiskValuesFor(config) == RiskValuesOver(IdsOf(AllQuestions(config.sections)))

validateIdle == questions = <<>> /\ result = [op |-> "none"]

\* RiskAssessmentForm: useState<RiskScore | null>(null), defaultValues: {}
InitRisk ==
  /\ formConfig \in RiskConfigs
  /\ formValues = NoValues
  /\ riskScore = Null
  /\ validateIdle /\ storageIdle

\* the effect that recomputes the score, on mount
CalculateRiskScore ==
  /\ riskScore' = calculateRiskScore(formConfig, formValues)
  /\ UNCHANGED <<callers, questions, formConfig, formValues, result, localStorage, now, calls>>

\* the answers change and the effect recomputes the score
ChangeAnswers(v) ==
  /\ riskScore # Null
  /\ v # formValues
  /\ formValues' = v
  /\ riskScore' = calculateRiskScore(formConfig, v)
  /\ UNCHANGED <<callers, questions, formConfig, result, localStorage, now, calls>>

NextRisk ==
  \/ CalculateRiskScore
  \/ \E v \in RiskValuesFor(formConfig) : ChangeAnswers(v)

SpecRisk == InitRisk /\ [][NextRisk]_vars

(***************************************************************************)
(* Properties of the risk scoring engine                                   *)
(***************************************************************************)
\* C5: with no answers at all the total score is 0, the percentage is 0 and
\* the level is Low, for every config.
C5_NoAnswersScoreZero ==
  (riskScore # Null /\ formValues = NoValues) =>
     /\ riskScore.totalScore = 0
     /\ riskScore.percentage = 0
     /\ riskScore.level = "Low"

C5_Witness ==
  /\ riskScore # Null /\ formValues = NoValues
  /\ Len(formConfig.sections) = 2
  /\ Has(formConfig, "maxRiskScore") /\ formConfig.maxRiskScore = 200
  /\ riskScore.level = "Low"

\* the riskValue the options give to an answer, riskWeight when the matching
\* option has none or no option matches
ExpectedSelectScore(question, answer) ==
  LET hits == {i \in 1..Len(question.options) :
                 /\ Str(question.options[i].value) = answer
                 /\ Has(question.options[i], "riskValue")}
  IN IF hits = {} THEN question.riskWeight
     ELSE question.options[CHOOSE i \in hits : \A j \in hits : i <= j].riskValue

\* the test configuration of the claim: one select question, maxRiskScore 100
OneSelectConfig ==
  [id |-> "test-form", title |-> "Test Form", maxRiskScore |-> 100,
   sections |-> <<Section("section1", <<RiskPool[1]>>)>>]

\* C6: a select question whose options carry riskValue scores the matched
\* option's riskValue, 0 included; with options yes:0, no:10 and weight 10,
\* 'yes' gives totalScore 0 / Low and 'no' gives totalScore 100 / Critical.
C6_SelectScoresRiskValue ==
  riskScore # Null =>
    /\ \A i \in 1..Len(formConfig.sections) :
         LET sec == formConfig.sections[i]
             q == sec.questions[1]
             answer == Get(formValues, q.id)
         IN (/\ Len(sec.questions) = 1 /\ q.id = "q1"
             /\ answer.t = "string" /\ answer.s # "") =>
               riskScore.breakdown[sec.id].score = Int2Rat(ExpectedSelectScore(q, answer))
    /\ formConfig = OneSelectConfig =>
         /\ formValues = [k \in {"q1"} |-> Str("yes")] =>
              riskScore.totalScore = 0 /\ riskScore.level = "Low"
         /\ formValues = [k \in {"q1"} |-> Str("no")] =>
              riskScore.totalScore = 100 /\ riskScore.level = "Critical"

\* the level the README table gives for a total score
DocumentedLevel(totalScore) ==
  CASE totalScore \in 0..25   -> "Low"
    [] totalScore \in 26..50  -> "Medium"
    [] totalScore \in 51..75  -> "High"
    [] totalScore \in 76..100 -> "Critical"
    [] OTHER                  -> "none"

\* C15: the reported level is the one the documented ranges give for the
\* reported totalScore: 0-25 Low, 26-50 Medium, 51-75 High, 76-100 Critical.
C15_LevelFollowsDocumentedRanges ==
  riskScore # Null => riskScore.level = DocumentedLevel(riskScore.totalScore)

\* C16: a question contributes at most its riskWeight: the total lies in
\* 0..maxScore, the percentage in 0..100, and every section's score in
\* 0..its maxScore.
C16_ScoresWithinBounds ==
  riskScore # Null =>
    /\ riskScore.totalScore \in 0..riskScore.maxScore
    /\ riskScore.percentage \in 0..100
    /\ \A id \in DOMAIN riskScore.breakdown :
         LET entry == riskScore.breakdown[id]
         IN /\ RatGeq(entry.score, Int2Rat(0))
            /\ RatGeq(Int2Rat(entry.maxScore), entry.score)

\* the sum of what the options give to the selected values
RECURSIVE ExpectedSum(_, _)
ExpectedSum(question, vals) ==
  IF Len(vals) = 0 THEN 0
  ELSE ExpectedSelectScore(question, vals[1]) + ExpectedSum(question, Tail(vals))

\* C20: a checkbox question answered with an array scores the mean of the
\* selected options' riskValue, 0 counted as 0, riskWeight standing in for
\* an option without riskValue or a value without option; the empty array
\* scores riskWeight.
C20_CheckboxScoresMean ==
  riskScore # Null =>
    \A i \in 1..Len(formConfig.sections) :
      LET sec == formConfig.sections[i]
          q == sec.questions[1]
          answer == Get(formValues, q.id)
      IN (Len(sec.questions) = 1 /\ q.type = "checkbox" /\ IsArray(answer)) =>
           riskScore.breakdown[sec.id].score =
             IF Len(answer.a) = 0 THEN Int2Rat(q.riskWeight)
             ELSE Rat(ExpectedSum(q, answer.a), Len(answer.a))

\* a question that scores by its weight alone: no option of it carries a
\* riskValue
IsBinary(question) ==
  \/ question.type \in {"text", "number", "date", "file"}
  \/ /\ question.type \in {"select", "checkbox"}
     /\ \A i \in 1..Len(question.options) :
          question.options[i].t = "string" \/ ~Has(question.options[i], "riskValue")

\* C21: a question without option risk values contributes its riskWeight
\* (0 when it has none) for every present answer, the number 0 and false
\* included, and 0 exactly for undefined, null, '' and the empty array.
C21_BinaryScoring ==
  riskScore # Null =>
    \A i \in 1..Len(formConfig.sections) :
      LET sec == formConfig.sections[i]
          q == sec.questions[1]
          answer == Get(formValues, q.id)
      IN (Len(sec.questions) = 1 /\ IsBinary(q)) =>
           riskScore.breakdown[sec.id].score =
             IF answer \in {Undefined, Null, Str(""), Arr(<<>>)} THEN Int2Rat(0)
             ELSE Int2Rat(IF Has(q, "riskWeight") THEN q.riskWeight ELSE 0)

\* (sum of question scores / sum of riskWeights) * 100, 0 without weights
RawPct ==
  LET qs == AllQuestions(formConfig.sections)
      weights == SumWeights(qs)
  IN IF weights = 0 THEN Int2Rat(0)
     ELSE RatMul(RatDiv(SumScores(qs, formValues), Int2Rat(weights)), Int2Rat(100))

\* the report has totalScore round(rawPct / 100 * M), maxScore M and
\* percentage round(rawPct)
NormalisedTo(M) ==
  /\ riskScore.totalScore = MathRound(RatMul(RatDiv(RawPct, Int2Rat(100)), Int2Rat(M)))
  /\ riskScore.maxScore = M
  /\ riskScore.percentage = MathRound(RawPct)

\* C22 as stated: M is config.maxRiskScore when it is defined, 0 included,
\* and 100 when it is absent.
C22_NormalisedToDefinedMax ==
  riskScore # Null =>
    NormalisedTo(IF Has(formConfig, "maxRiskScore") THEN formConfig.maxRiskScore ELSE 100)

\* C22: M is config.maxRiskScore when it is defined and not 0, and 100 when
\* it is absent or 0.
C22_NormalisedToTruthyMax ==
  riskScore # Null =>
    NormalisedTo(IF Has(formConfig, "maxRiskScore") /\ formConfig.maxRiskScore # 0
                 THEN formConfig.maxRiskScore ELSE 100)

\* a config with maxRiskScore 0 reports on the scale of 100
C22_Witness ==
  /\ riskScore # Null
  /\ Has(formConfig, "maxRiskScore") /\ formConfig.maxRiskScore = 0
  /\ riskScore.maxScore = 100 /\ riskScore.totalScore > 0

\* rawPct / 100 * the reported maxScore, unrounded
NormalizedScore == RatMul(RatDiv(RawPct, Int2Rat(100)), Int2Rat(riskScore.maxScore))

C29_ScoringIgnoresVisibility ==
  riskScore # Null =>
    \A i \in 1..Len(formConfig.sections) :
      LET sec == formConfig.sections[i]
      IN /\ riskScore.breakdown[sec.id].maxScore = SumWeights(sec.questions)
         /\ riskScore.breakdown[sec.id].score = SumScores(sec.questions, formValues)

\* a hidden question with an answer adds its weight to the score
C29_Witness ==
  /\ riskScore # Null
  /\ Len(formConfig.sections) = 1 /\ Len(formConfig.sections[1].questions) = 1
  /\ formConfig.sections[1].questions[1].id = "q4"
  /\ ~isFieldVisible(formConfig.sections[1].questions[1], formValues)
  /\ formValues = [k \in {"q4"} |-> Str("x")]
  /\ riskScore.breakdown["section1"].score = Int2Rat(5)
  /\ riskScore.totalScore = 100

\* every question scores under the new answers at least what it scored
\* under the old ones
NoScoreLowered ==
  LET qs == AllQuestions(formConfig.sections)
  IN \A i \in 1..Len(qs) :
       RatGeq(calculateQuestionRiskScore(qs[i], Get(formValues', qs[i].id)),
              calculateQuestionRiskScore(qs[i], Get(formValues, qs[i].id)))

\* C7: when the answers change so that no question's contributed score gets
\* lower, the total score does not get lower.
C7_Monotone ==
  [][(riskScore # Null /\ NoScoreLowered) => riskScore'.totalScore >= riskScore.totalScore]_vars

\* both questions answered and scoring, after an answer was raised
C7_Witness ==
  /\ riskScore # Null
  /\ Len(AllQuestions(formConfig.sections)) = 2
  /\ DOMAIN formValues = {"q1", "q3"}
  /\ formValues["q1"] = Str("no") /\ formValues["q3"] = Arr(<<Str("a"), Str("b")>>)
  /\ riskScore.totalScore > 0

(***************************************************************************)
(* storage.ts                                                              *)
(*                                                                         *)
(* A stored item is the JSON text written by JSON.stringify, kept as the   *)
(* JSON value it denotes: JSON.parse of the item gives that value back.    *)
(***************************************************************************)
STORAGE_PREFIX == "risk-form:"

getStorageKey(formId) == STORAGE_PREFIX \o formId
getDraftsListKey(formId) == STORAGE_PREFIX \o "drafts:" \o formId
\* `${STORAGE_PREFIX}draft:${formId}:${draftId}`
getDraftKey(formId, draftId) == STORAGE_PREFIX \o "draft:" \o formId \o ":" \o draftId

\* new Date(t).toISOString() for a time t of the first second of the epoch
IsoString(t) ==
  "1970-01-01T00:00:00."
    \o (IF t < 10 THEN "00" ELSE IF t < 100 THEN "0" ELSE "") \o ToString(t) \o "Z"

\* what JSON.stringify keeps of a value: a File has no enumerable property
\* of its own and is written as {}, undefined in an array as null
RECURSIVE JsonValue(_)
JsonValue(v) ==
  CASE v.t = "array"     -> Arr([i \in 1..Len(v.a) |-> JsonValue(v.a[i])])
    [] v.t = "file"      -> EmptyObj
    [] v.t = "undefined" -> Null
    [] OTHER             -> v

\* JSON.stringify of a FormValues object: undefined properties are left out
JsonValues(values) ==
  [k \in {k \in DOMAIN values : values[k] # Undefined} |-> JsonValue(values[k])]

\* JSON.parse(JSON.stringify(state)) for a PersistedFormState
JsonState(state) == [state EXCEPT !.values = JsonValues(state.values)]

\* an item whose text JSON.parse rejects (written by other code of the
\* origin, or cut short): JSON.parse throws a SyntaxError on it
Unparseable == [t |-> "unparseable"]

\* localStorage.getItem(key): null when the key is absent
getItem(store, key) == IF key \in DOMAIN store THEN store[key] ELSE Null
\* localStorage.setItem(key, item)
setItem(store, key, item) ==
  [k \in DOMAIN store \cup {key} |-> IF k = key THEN item ELSE store[k]]
\* localStorage.removeItem(key)
removeItem(store, key) == [k \in DOMAIN store \ {key} |-> store[k]]

\* the PersistedFormState saveFormState and saveDraft build
PersistedFormState(formId, values, isDraft, draftId, t) ==
  [t |-> "object", formId |-> formId, values |-> values,
   autoSave |-> [lastSavedAt |-> IsoString(t), isDraft |-> isDraft, draftId |-> draftId],
   timestamp |-> IsoString(t)]

\* saveFormState with isDraft: draftId != null
saveFormStateDraftWhenSupplied(store, formId, values, draftId, t) ==
  LET state == PersistedFormState(formId, values, draftId \notin {Undefined, Null},
                                  IF Truthy(draftId) THEN draftId.s ELSE "", t)
  IN [store |-> setItem(store, getStorageKey(formId), JsonState(state)),
      ret |-> state, threw |-> FALSE]

\* saveFormState(formId, values, draftId?) at time t:
\* [store |-> the store afterwards, ret |-> the returned state]
saveFormState(store, formId, values, draftId, t) ==
  LET state == PersistedFormState(formId, values, Truthy(draftId),
                                  IF Truthy(draftId) THEN draftId.s ELSE "", t)
  IN [store |-> setItem(store, getStorageKey(formId), JsonState(state)),
      ret |-> state, threw |-> FALSE]

\* stored ? JSON.parse(stored) : fallback, inside try/catch: a SyntaxError of
\* JSON.parse is caught and the fallback returned
ParseOr(stored, fallback) ==
  IF stored = Null \/ stored = Unparseable THEN fallback ELSE stored

\* loadFormState returning whatever the key holds
loadFormStateUncaught(store, formId) == getItem(store, getStorageKey(formId))

\* loadFormState(formId): the parsed state or null
loadFormState(store, formId) == ParseOr(getItem(store, getStorageKey(formId)), Null)

\* clearFormState(formId)
clearFormState(store, formId) ==
  [store |-> removeItem(store, getStorageKey(formId)), ret |-> Undefined, threw |-> FALSE]

\* loadDraft(formId, draftId): the parsed state or null
loadDraft(store, formId, draftId) ==
  ParseOr(getItem(store, getDraftKey(formId, draftId)), Null)

\* getDraftsList(formId): the parsed index, [] when there is none
getDraftsList(store, formId) ==
  ParseOr(getItem(store, getDraftsListKey(formId)), Arr(<<>>))

DraftEntry(id, name, t) ==
  [t |-> "object", id |-> id, name |-> name,
   createdAt |-> IsoString(t), updatedAt |-> IsoString(t)]

\* saveDraft that writes the draft and leaves the index alone
saveDraftNoIndex(store, formId, draftName, values, draftId, t) ==
  LET newDraftId == IF Truthy(draftId) THEN draftId.s ELSE "draft-" \o ToString(t)
      state == PersistedFormState(formId, values, TRUE, newDraftId, t)
  IN [store |-> setItem(store, getDraftKey(formId, newDraftId), JsonState(state)),
      ret |-> Str(newDraftId), threw |-> FALSE]

\* saveDraft(formId, draftName, values, draftId?) at time t.  push on an
\* index that is not an array throws inside the try, after the draft was
\* written.
saveDraft(store, formId, draftName, values, draftId, t) ==
  LET newDraftId == IF Truthy(draftId) THEN draftId.s ELSE "draft-" \o ToString(t)
      state == PersistedFormState(formId, values, TRUE, newDraftId, t)
      written == setItem(store, getDraftKey(formId, newDraftId), JsonState(state))
      draftsList == getDraftsList(written, formId)
  IN IF ~IsArray(draftsList)
     THEN [store |-> written, ret |-> Undefined, threw |-> TRUE]
     ELSE [store |-> setItem(written, getDraftsListKey(formId),
                             Arr(Append(draftsList.a, DraftEntry(newDraftId, draftName, t)))),
           ret |-> Str(newDraftId), threw |-> FALSE]

\* saveFormState when localStorage.setItem throws (quota exceeded, storage
\* disabled): the catch rethrows 'Failed to save form state'
saveFormStateWriteFails(store, formId, values, draftId, t) ==
  [store |-> store, ret |-> Undefined, threw |-> TRUE]

\* saveDraft when a localStorage.setItem throws: the one of the draft
\* (failing = "draft") or the one of the index (failing = "index"), which
\* comes after the draft was written; the catch rethrows 'Failed to save
\* draft'
saveDraftWriteFails(store, formId, draftName, values, draftId, t, failing) ==
  LET newDraftId == IF Truthy(draftId) THEN draftId.s ELSE "draft-" \o ToString(t)
      state == PersistedFormState(formId, values, TRUE, newDraftId, t)
      written == setItem(store, getDraftKey(formId, newDraftId), JsonState(state))
  IN [store |-> IF failing = "draft" THEN store ELSE written,
      ret |-> Undefined, threw |-> TRUE]

\* the index write of saveDraft done on the index as the store holds it now
PushAndStoreFresh(store, formId, draftsList, entry) ==
  setItem(store, getDraftsListKey(formId),
          Arr(Append(getDraftsList(store, formId).a, entry)))

\* draftsList.push(entry); localStorage.setItem(listKey, JSON.stringify(draftsList))
\* for the draftsList that getDraftsList returned earlier in the call
PushAndStore(store, formId, draftsList, entry) ==
  setItem(store, getDraftsListKey(formId), Arr(Append(draftsList, entry)))

\* deleteDraft that removes the draft but leaves the index alone
deleteDraftKeepIndex(store, formId, draftId) ==
  [store |-> removeItem(store, getDraftKey(formId, draftId)),
   ret |-> Undefined, threw |-> FALSE]

\* deleteDraft(formId, draftId): errors are swallowed
deleteDraft(store, formId, draftId) ==
  LET removed == removeItem(store, getDraftKey(formId, draftId))
      draftsList == getDraftsList(removed, formId)
  IN IF ~IsArray(draftsList)
     THEN [store |-> removed, ret |-> Undefined, threw |-> FALSE]
     ELSE [store |-> setItem(removed, getDraftsListKey(formId),
                             Arr(SelectSeq(draftsList.a, LAMBDA d : d.id # draftId))),
           ret |-> Undefined, threw |-> FALSE]

\* renameDraft(formId, draftId, newName) at time t: the first entry with
\* the id is renamed; errors are swallowed
renameDraft(store, formId, draftId, newName, t) ==
  LET draftsList == getDraftsList(store, formId)
      hits == IF IsArray(draftsList)
              THEN {i \in 1..Len(draftsList.a) : draftsList.a[i].id = draftId} ELSE {}
      first == CHOOSE i \in hits : \A j \in hits : i <= j
  IN IF hits = {}
     THEN [store |-> store, ret |-> Undefined, threw |-> FALSE]
     ELSE [store |-> setItem(store, getDraftsListKey(formId),
                             Arr([draftsList.a EXCEPT ![first] =
                                    [@ EXCEPT !.name = newName, !.updatedAt = IsoString(t)]])),
           ret |-> Undefined, threw |-> FALSE]

\* exportFormState(formId): the JSON text of the loaded state, kept as the
\* value it parses to; throws when there is no state
exportFormState(store, formId) ==
  LET state == loadFormState(store, formId)
  IN IF state = Null
     THEN [ret |-> Undefined, threw |-> TRUE]
     ELSE [ret |-> IF state.t = "object" /\ "values" \in DOMAIN state
                   THEN JsonState(state) ELSE JsonValue(state),
           threw |-> FALSE]

\* state.formId === formId /\ state.autoSave.draftId can be read, for the
\* value state that JSON.parse gave
Importable(state, formId) ==
  /\ state # Unparseable
  /\ state.t = "object"
  /\ "formId" \in DOMAIN state /\ state.formId = formId
  /\ "autoSave" \in DOMAIN state

\* importFormState without the check of the form id
importFormStateNoCheck(store, formId, jsonData, t) ==
  IF /\ jsonData # Unparseable /\ jsonData.t = "object"
     /\ "autoSave" \in DOMAIN jsonData
  THEN saveFormState(store, formId,
                     IF "values" \in DOMAIN jsonData THEN jsonData.values ELSE NoValues,
                     Str(jsonData.autoSave.draftId), t)
  ELSE [store |-> store, ret |-> Undefined, threw |-> TRUE]

\* importFormState(formId, jsonData) at time t: a SyntaxError of JSON.parse, a
\* TypeError of state.formId on null or of state.autoSave.draftId, and the
\* 'Form ID mismatch' all end in throw new Error('Invalid form data')
importFormState(store, formId, jsonData, t) ==
  IF Importable(jsonData, formId)
  THEN saveFormState(store, formId,
                     IF "values" \in DOMAIN jsonData THEN jsonData.values ELSE NoValues,
                     Str(jsonData.autoSave.draftId), t)
  ELSE [store |-> store, ret |-> Undefined, threw |-> TRUE]

\* clearAllStorage(): every key under the prefix goes
clearAllStorage(store) ==
  [store |-> [k \in {k \in DOMAIN store : ~StartsWith(k, STORAGE_PREFIX)} |-> store[k]],
   ret |-> Undefined, threw |-> FALSE]

(***************************************************************************)
(* Calls of the store                                                      *)
(***************************************************************************)
MaxCalls == 3
MaxTime == 1

FormIds == {"f1", "f2"}
\* the name a draft is saved under, and the name it is renamed to
DraftNames == {"Draft 1"}
NewNames == {"Draft 2"}
\* the draftId argument: absent, or a caller's id
DraftIdArgs == {Undefined, Str("d1")}
\* the draftId argument of saveFormState: also the '' a state that is no
\* draft carries
StateDraftIdArgs == DraftIdArgs \cup {Str("")}
\* the draft ids a caller can know of
KnownDraftIds == {"d1"} \cup {"draft-" \o ToString(t) : t \in 0..MaxTime}

\* the answers saved: text and number, and the File[] of a file field
SavedValues ==
  {("q1" :> Str("answer1")) @@ ("q2" :> Num(42)),
   ("q3" :> Arr(<<FileOf("report.pdf", "application/pdf", 1000)>>))}

\* localStorage.clear()
InitStore ==
  /\ localStorage = NoValues
  /\ now = 0
  /\ calls = 0
  /\ result = [op |-> "none"]
  /\ questions = <<>> /\ formValues = NoValues
  /\ riskIdle
  /\ callers = NoCallers

\* a call of the store: its outcome is applied and recorded
Apply(call, outcome) ==
  /\ calls < MaxCalls
  /\ calls' = calls + 1
  /\ localStorage' = outcome.store
  /\ result' = call @@ [ret |-> outcome.ret, threw |-> outcome.threw]
  /\ UNCHANGED <<callers, questions, formConfig, formValues, riskScore, now>>

SaveFormState(formId, values, draftId) ==
  Apply([op |-> "saveFormState", formId |-> formId, values |-> values, draftId |-> draftId],
        saveFormState(localStorage, formId, values, draftId, now))

ClearFormState(formId) ==
  Apply([op |-> "clearFormState", formId |-> formId], clearFormState(localStorage, formId))

SaveDraft(formId, draftName, values, draftId) ==
  Apply([op |-> "saveDraft", formId |-> formId, draftName |-> draftName,
         values |-> values, draftId |-> draftId],
        saveDraft(localStorage, formId, draftName, values, draftId, now))

\* existed records whether the draft had data when the call was made
DeleteDraft(formId, draftId) ==
  Apply([op |-> "deleteDraft", formId |-> formId, draftId |-> draftId,
         existed |-> loadDraft(localStorage, formId, draftId) # Null],
        deleteDraft(localStorage, formId, draftId))

RenameDraft(formId, draftId, newName) ==
  Apply([op |-> "renameDraft", formId |-> formId, draftId |-> draftId, newName |-> newName],
        renameDraft(localStorage, formId, draftId, newName, now))

ClearAllStorage ==
  Apply([op |-> "clearAllStorage"], clearAllStorage(localStorage))

\* the texts handed to importFormState: the export of a form, text that is
\* not JSON, and an object with a form id and nothing else
ImportTexts(store) ==
  {exportFormState(store, g).ret : g \in {g \in FormIds : ~exportFormState(store, g).threw}}
    \cup {Unparseable, [t |-> "object", formId |-> "f1"]}

\* the items that other code overwrites: those of one form
CorruptibleKeys ==
  {getStorageKey("f1"), getDraftsListKey("f1"), getDraftKey("f1", "d1")}

ImportFormState(formId, jsonData) ==
  Apply([op |-> "importFormState", formId |-> formId, jsonData |-> jsonData],
        importFormState(localStorage, formId, jsonData, now))

\* an item of the store is overwritten with text that is not JSON
CorruptItem(key) ==
  /\ calls < MaxCalls
  /\ key \in DOMAIN localStorage
  /\ localStorage[key] # Unparseable
  /\ calls' = calls + 1
  /\ localStorage' = setItem(localStorage, key, Unparseable)
  /\ result' = [op |-> "corruptItem", key |-> key]
  /\ UNCHANGED <<callers, questions, formConfig, formValues, riskScore, now>>

\* time passes between calls
Tick ==
  /\ now < MaxTime
  /\ now' = now + 1
  /\ UNCHANGED <<callers, questions, formConfig, formValues, result, riskScore, localStorage, calls>>

NextStore ==
  \/ \E f \in FormIds, v \in SavedValues, d \in DraftIdArgs : SaveFormState(f, v, d)
  \/ \E f \in FormIds : ClearFormState(f)
  \/ \E f \in FormIds, n \in DraftNames, v \in SavedValues, d \in DraftIdArgs :
       SaveDraft(f, n, v, d)
  \/ \E f \in FormIds, d \in KnownDraftIds : DeleteDraft(f, d)
  \/ \E f \in FormIds, d \in KnownDraftIds, n \in NewNames : RenameDraft(f, d, n)
  \/ ClearAllStorage
  \/ Tick

SpecStore == InitStore /\ [][NextStore]_vars

\* the current state of a form and its drafts, exported, imported, removed
\* and overwritten by other code
NextState ==
  \/ \E f \in FormIds, v \in SavedValues, d \in StateDraftIdArgs : SaveFormState(f, v, d)
  \/ \E f \in FormIds : ClearFormState(f)
  \/ \E f \in FormIds, j \in ImportTexts(localStorage) : ImportFormState(f, j)
  \/ \E f \in FormIds, n \in DraftNames, v \in SavedValues : SaveDraft(f, n, v, Str("d1"))
  \/ \E f \in FormIds : DeleteDraft(f, "d1")
  \/ \E k \in CorruptibleKeys : CorruptItem(k)
  \/ Tick

SpecState == InitStore /\ [][NextState]_vars

\* a write of the call fails
SaveFormStateWriteFails(formId, values, draftId) ==
  Apply([op |-> "saveFormState", formId |-> formId, values |-> values,
         draftId |-> draftId, failing |-> "state"],
        saveFormStateWriteFails(localStorage, formId, values, draftId, now))

SaveDraftWriteFails(formId, draftName, values, draftId, failing) ==
  Apply([op |-> "saveDraft", formId |-> formId, draftName |-> draftName,
         values |-> values, draftId |-> draftId, failing |-> failing],
        saveDraftWriteFails(localStorage, formId, draftName, values, draftId, now, failing))

\* saves on a store whose writes may fail
NextWrites ==
  \/ \E f \in FormIds, v \in SavedValues, d \in DraftIdArgs : SaveFormState(f, v, d)
  \/ \E f \in FormIds, v \in SavedValues, d \in DraftIdArgs : SaveFormStateWriteFails(f, v, d)
  \/ \E f \in FormIds, n \in DraftNames, v \in SavedValues, d \in DraftIdArgs :
       SaveDraft(f, n, v, d)
  \/ \E f \in FormIds, n \in DraftNames, v \in SavedValues, d \in DraftIdArgs :
       \E failing \in {"draft", "index"} : SaveDraftWriteFails(f, n, v, d, failing)
  \/ Tick

SpecWrites == InitStore /\ [][NextWrites]_vars

\* Two callers run saveDraft on the same form, each under its own draft id;
\* a call is the three accesses to the store of storage.ts:106, 110 and 117,
\* and the accesses of the two calls interleave.
RaceFormId == "f1"
DraftIdOf(c) == IF c = "A" THEN "d1" ELSE "d2"
At(c, pc) == callers[c].pc = pc

\* saveDraft(RaceFormId, name, values, DraftIdOf(c)) is entered
BeginSaveDraft(c, values) ==
  /\ At(c, "idle")
  /\ calls < MaxCalls
  /\ calls' = calls + 1
  /\ callers' = [callers EXCEPT ![c] = [IdleCaller EXCEPT !.pc = "setDraft", !.values = values]]
  /\ UNCHANGED <<questions, formConfig, formValues, result, riskScore, localStorage, now>>

\* localStorage.setItem(draftKey, JSON.stringify(state))
WriteDraft(c) ==
  /\ At(c, "setDraft")
  /\ localStorage' =
       setItem(localStorage, getDraftKey(RaceFormId, DraftIdOf(c)),
               JsonState(PersistedFormState(RaceFormId, callers[c].values, TRUE,
                                            DraftIdOf(c), now)))
  /\ callers' = [callers EXCEPT ![c].pc = "getList"]
  /\ UNCHANGED <<questions, formConfig, formValues, result, riskScore, now, calls>>

\* const draftsList = getDraftsList(formId); raced records that the other
\* caller has read the index and not yet written it
ReadIndex(c) ==
  /\ At(c, "getList")
  /\ callers' = [callers EXCEPT
                   ![c].pc = "setList",
                   ![c].draftsList = getDraftsList(localStorage, RaceFormId).a,
                   ![c].raced = \E o \in Callers \ {c} : At(o, "setList")]
  /\ UNCHANGED <<questions, formConfig, formValues, result, riskScore, localStorage, now, calls>>

\* draftsList.push({...}); localStorage.setItem(listKey, ...); return newDraftId
WriteIndex(c, draftName) ==
  /\ At(c, "setList")
  /\ localStorage' = PushAndStore(localStorage, RaceFormId, callers[c].draftsList,
                                  DraftEntry(DraftIdOf(c), draftName, now))
  /\ callers' = [callers EXCEPT ![c].pc = "done"]
  /\ result' = [op |-> "saveDraft", caller |-> c, formId |-> RaceFormId,
                ret |-> Str(DraftIdOf(c)), threw |-> FALSE]
  /\ UNCHANGED <<questions, formConfig, formValues, riskScore, now, calls>>

NextRace ==
  \/ \E c \in Callers, v \in SavedValues : BeginSaveDraft(c, v)
  \/ \E c \in Callers : WriteDraft(c)
  \/ \E c \in Callers : ReadIndex(c)
  \/ \E c \in Callers, n \in DraftNames \cup NewNames : WriteIndex(c, n)
  \/ Tick

SpecRace == InitStore /\ [][NextRace]_vars

(***************************************************************************)
(* RiskAssessmentForm: the answers held by the form, the autosave timer    *)
(* and the submission                                                      *)
(***************************************************************************)
\* the config the form is rendered for: a required select and an optional
\* number question
FormUnderTest ==
  [id |-> "test-form", title |-> "Test Form",
   sections |-> <<Section("section1", <<QuestionPool[1], QuestionPool[3]>>)>>]

\* config.sections.reduce(... getVisibleQuestions(section.questions, formValues) ...)
RECURSIVE VisibleOfSections(_, _)
VisibleOfSections(sections, values) ==
  IF Len(sections) = 0 THEN <<>>
  ELSE getVisibleQuestions(sections[1].questions, values)
         \o VisibleOfSections(Tail(sections), values)

\* useForm({ defaultValues: {} }), useState<RiskScore | null>(null), and a
\* store without state for the form
InitForm ==
  /\ formConfig = FormUnderTest
  /\ formValues = NoValues
  /\ riskScore = Null
  /\ localStorage = NoValues
  /\ result = [op |-> "none", submitted |-> FALSE]
  /\ questions = <<>>
  /\ now = 0 /\ calls = 0 /\ callers = NoCallers

\* an event of the form
FormEvent ==
  /\ calls < MaxCalls
  /\ calls' = calls + 1
  /\ UNCHANGED <<questions, formConfig, now, callers>>

\* the user changes an answer: watch() gives the new values and the effect
\* recomputes the score
SetAnswer(id, v) ==
  /\ FormEvent
  /\ Get(formValues, id) # v
  /\ formValues' = (id :> v) @@ formValues
  /\ riskScore' = calculateRiskScore(formConfig, formValues')
  /\ result' = [op |-> "change", submitted |-> FALSE]
  /\ UNCHANGED localStorage

\* the setInterval callback of the auto-save effect
AutoSaveTick ==
  /\ FormEvent
  /\ localStorage' =
       IF DOMAIN formValues # {}
       THEN saveFormState(localStorage, formConfig.id, formValues, Undefined, now).store
       ELSE localStorage
  /\ result' = [op |-> "autosave", submitted |-> result.submitted]
  /\ UNCHANGED <<formValues, riskScore>>

\* handleFormSubmit: nothing happens on validation errors; otherwise
\* onSubmit is awaited and, when it resolves, saveFormState(config.id, {})
HandleFormSubmit(resolves) ==
  /\ FormEvent
  /\ LET validationErrors ==
           validateForm(VisibleOfSections(formConfig.sections, formValues), formValues)
         passed == DOMAIN validationErrors = {} /\ resolves
     IN /\ localStorage' =
             IF passed
             THEN saveFormState(localStorage, formConfig.id, NoValues, Undefined, now).store
             ELSE localStorage
        /\ result' = [op |-> "submit", submitted |-> passed \/ result.submitted]
  /\ UNCHANGED <<formValues, riskScore>>

\* the page is loaded again: the form starts from {} and the mount effect
\* sets every saved value
Mount ==
  /\ FormEvent
  /\ LET saved == loadFormState(localStorage, formConfig.id)
     IN formValues' = IF saved = Null THEN NoValues ELSE saved.values
  /\ riskScore' = calculateRiskScore(formConfig, formValues')
  /\ result' = [op |-> "mount", submitted |-> result.submitted]
  /\ UNCHANGED localStorage

NextForm ==
  \/ \E id \in {"q1", "q3"} : \E v \in AnswersFor(id) : SetAnswer(id, v)
  \/ AutoSaveTick
  \/ \E resolves \in BOOLEAN : HandleFormSubmit(resolves)
  \/ Mount
  \/ Tick

SpecForm == InitForm /\ [][NextForm]_vars

\* form ids that a config may carry: any string is an id, also one that
\* starts like the key of an index or of a draft
KeyFormIds == {"f1", "drafts:f1", "draft:f1:d1"}

NextKeys ==
  \/ \E f \in KeyFormIds, v \in SavedValues : SaveFormState(f, v, Undefined)
  \/ \E f \in KeyFormIds : ClearFormState(f)
  \/ \E f \in KeyFormIds, g \in KeyFormIds :
       /\ ~exportFormState(localStorage, g).threw
       /\ ImportFormState(f, exportFormState(localStorage, g).ret)
  \/ \E f \in KeyFormIds, n \in DraftNames, v \in SavedValues : SaveDraft(f, n, v, Str("d1"))
  \/ \E f \in KeyFormIds : DeleteDraft(f, "d1")
  \/ \E f \in KeyFormIds, n \in NewNames : RenameDraft(f, "d1", n)

SpecKeys == InitStore /\ [][NextKeys]_vars

(***************************************************************************)
(* Properties of the store                                                 *)
(***************************************************************************)
\* deep equality of two FormValues objects; a property that is undefined
\* counts as a property that is absent
WithoutUndefined(values) == [k \in {k \in DOMAIN values : values[k] # Undefined} |-> values[k]]
DeepEquals(a, b) == WithoutUndefined(a) = WithoutUndefined(b)

\* C8: after a successful saveFormState(formId, values), whatever was saved
\* before, loadFormState(formId) returns a state with that formId and with
\* values equal to the values just saved.
C8_LoadReturnsLastSaved ==
  (result.op = "saveFormState" /\ ~result.threw) =>
    LET loaded == loadFormState(localStorage, result.formId)
    IN /\ loaded # Null
       /\ loaded.formId = result.formId
       /\ DeepEquals(loaded.values, result.values)

\* the step is a call of the store of the given kind
StepOf(op) == calls' = calls + 1 /\ result'.op = op

\* C9: a successful saveDraft whose id is not yet in the index appends
\* exactly one entry to the index, leaving the entries before it as they
\* were, and loadDraft of the returned id gives the saved values with
\* autoSave.isDraft = true.
C9_SaveDraftAddsOneDraft ==
  [][LET f == result'.formId
         before == getDraftsList(localStorage, f).a
         after == getDraftsList(localStorage', f).a
         loaded == loadDraft(localStorage', f, result'.ret.s)
     IN (/\ StepOf("saveDraft") /\ ~result'.threw
         /\ \A i \in 1..Len(before) : before[i].id # result'.ret.s) =>
          /\ Len(after) = Len(before) + 1
          /\ SubSeq(after, 1, Len(before)) = before
          /\ after[Len(after)].id = result'.ret.s
          /\ loaded # Null
          /\ DeepEquals(loaded.values, result'.values)
          /\ loaded.autoSave.isDraft = TRUE]_vars

\* C10: deleteDraft(formId, draftId) leaves no data for the draft and the
\* index without its entries; the other entries keep their order, and
\* every other item of the store (the other drafts, the current state of
\* the form, the other forms) is as before.
C10_DeleteRemovesExactlyTheDraft ==
  [][StepOf("deleteDraft") =>
       LET f == result'.formId
           d == result'.draftId
           before == getDraftsList(localStorage, f).a
           keep == {i \in 1..Len(before) : before[i].id # d}
           touched == {getDraftKey(f, d), getDraftsListKey(f)}
       IN /\ loadDraft(localStorage', f, d) = Null
          /\ Len(getDraftsList(localStorage', f).a) = Cardinality(keep)
          /\ \A i \in keep :
               getDraftsList(localStorage', f).a[Cardinality({j \in keep : j <= i})] = before[i]
          /\ loadFormState(localStorage', f) = loadFormState(localStorage, f)
          /\ \A d2 \in KnownDraftIds \ {d} :
               loadDraft(localStorage', f, d2) = loadDraft(localStorage, f, d2)
          /\ DOMAIN localStorage' \ touched = DOMAIN localStorage \ touched
          /\ \A k \in DOMAIN localStorage \ touched : localStorage'[k] = localStorage[k]]_vars

\* a saved draft was deleted; another draft of the form is still listed and
\* loads
C10_Witness ==
  /\ result.op = "deleteDraft" /\ result.existed
  /\ loadDraft(localStorage, result.formId, result.draftId) = Null
  /\ LET remaining == getDraftsList(localStorage, result.formId).a
     IN /\ Len(remaining) = 1
        /\ remaining[1].id # result.draftId
        /\ loadDraft(localStorage, result.formId, remaining[1].id) # Null

\* C11: importing what exportFormState(formId) gave leaves the values that
\* loadFormState(formId) returns as they were before the export; a text
\* whose formId is another form's makes importFormState throw and leaves the
\* store as it was.
C11_ImportRoundTripsOrThrows ==
  [][StepOf("importFormState") =>
       LET f == result'.formId
           jsonData == result'.jsonData
           exported == exportFormState(localStorage, f)
       IN /\ (~exported.threw /\ jsonData = exported.ret) =>
               /\ ~result'.threw
               /\ loadFormState(localStorage', f) # Null
               /\ loadFormState(localStorage', f).values
                    = loadFormState(localStorage, f).values
          /\ (/\ jsonData # Unparseable
              /\ "formId" \in DOMAIN jsonData
              /\ jsonData.formId # f) =>
               /\ result'.threw
               /\ localStorage' = localStorage]_vars

\* the export of a form with answers was imported into the same form
C11_Witness ==
  /\ result.op = "importFormState" /\ ~result.threw
  /\ result.jsonData.formId = result.formId
  /\ DOMAIN result.jsonData.values # {}
  /\ loadFormState(localStorage, result.formId).values = result.jsonData.values

\* the calls that name a form
FormCalls ==
  {"saveFormState", "clearFormState", "saveDraft", "deleteDraft", "renameDraft",
   "importFormState"}

\* C12: a call made for form f leaves what loadFormState, getDraftsList and
\* loadDraft return for every other form as it was.
C12_FormsAreIsolated ==
  [][(calls' = calls + 1 /\ result'.op \in FormCalls) =>
       \A g \in KeyFormIds \ {result'.formId} :
         /\ loadFormState(localStorage', g) = loadFormState(localStorage, g)
         /\ getDraftsList(localStorage', g) = getDraftsList(localStorage, g)
         /\ \A d \in KnownDraftIds :
              loadDraft(localStorage', g, d) = loadDraft(localStorage, g, d)]_vars

SavedAutoSave(isDraft, draftId) ==
  LET stored == loadFormState(localStorage, result.formId)
  IN /\ result.ret.autoSave.isDraft = isDraft
     /\ result.ret.autoSave.draftId = draftId
     /\ stored.autoSave.isDraft = isDraft
     /\ stored.autoSave.draftId = draftId

\* C14 as stated: isDraft is true exactly when a draftId was supplied
\* (draftId != null), and draftId is the supplied id, or '' without one.
C14_DraftWhenSupplied ==
  result.op = "saveFormState" =>
    SavedAutoSave(result.draftId \notin {Undefined, Null},
                  IF result.draftId \in {Undefined, Null} THEN "" ELSE result.draftId.s)

\* C14: isDraft is true exactly when a draftId other than '' was supplied,
\* and draftId is the supplied id, or '' without one.
C14_DraftWhenNonEmptyId ==
  result.op = "saveFormState" =>
    SavedAutoSave(result.draftId \notin {Undefined, Null, Str("")},
                  IF result.draftId \in {Undefined, Null} THEN "" ELSE result.draftId.s)

\* saveFormState was called with the draftId '' and stored a state that is
\* no draft
C14_Witness ==
  /\ result.op = "saveFormState" /\ result.draftId = Str("")
  /\ loadFormState(localStorage, result.formId).autoSave.isDraft = FALSE

\* the ids the index of a form lists
ListedIds(store, formId) ==
  LET list == getDraftsList(store, formId).a
  IN {list[i].id : i \in 1..Len(list)}

\* C24: saveDraft with a draftId that the index already lists leaves the
\* length of the index as it was, and the index of a form never lists an id
\* twice.
C24_SaveDraftUpdatesEntry ==
  [][calls' = calls + 1 =>
       /\ \A f \in FormIds :
            LET list == getDraftsList(localStorage', f).a
            IN \A i, j \in 1..Len(list) : list[i].id = list[j].id => i = j
       /\ (/\ result'.op = "saveDraft" /\ ~result'.threw
           /\ result'.ret.s \in ListedIds(localStorage, result'.formId)) =>
            Len(getDraftsList(localStorage', result'.formId).a)
              = Len(getDraftsList(localStorage, result'.formId).a)]_vars

\* C27: the ids the index of a form lists are the ids whose draft loads.
C27_IndexMatchesData ==
  \A f \in FormIds :
    ListedIds(localStorage, f) = {d \in KnownDraftIds : loadDraft(localStorage, f, d) # Null}

\* two drafts of a form are listed and load, after one of them was renamed
C27_Witness ==
  /\ result.op = "renameDraft"
  /\ Cardinality(ListedIds(localStorage, result.formId)) = 2
  /\ \E i \in 1..2 : getDraftsList(localStorage, result.formId).a[i].name \in NewNames
  /\ \A d \in ListedIds(localStorage, result.formId) :
       loadDraft(localStorage, result.formId, d) # Null

\* C30: saveDraft without a draftId returns an id that the index does not
\* list yet and that holds no draft yet.
C30_GeneratedIdsAreFresh ==
  [][(StepOf("saveDraft") /\ result'.draftId = Undefined /\ ~result'.threw) =>
       /\ result'.ret.s \notin ListedIds(localStorage, result'.formId)
       /\ loadDraft(localStorage, result'.formId, result'.ret.s) = Null]_vars

\* C26: a saveFormState or saveDraft during which a write fails throws and
\* leaves the store as it was before the call.
C26_FailedWriteSavesNothing ==
  [][(calls' = calls + 1 /\ "failing" \in DOMAIN result') =>
       /\ result'.threw
       /\ localStorage' = localStorage]_vars

\* C25: when both callers have returned from saveDraft, both drafts have
\* their data; if one caller read the index while the other stood between
\* its read and its write of the index, the index lists only the draft of
\* the caller that wrote last, and if the calls did not interleave so, it
\* lists both.
C25_LostIndexUpdateIffInterleaved ==
  (\A c \in Callers : At(c, "done")) =>
     /\ \A c \in Callers : loadDraft(localStorage, RaceFormId, DraftIdOf(c)) # Null
     /\ IF \E c \in Callers : callers[c].raced
        THEN ListedIds(localStorage, RaceFormId) = {DraftIdOf(result.caller)}
        ELSE ListedIds(localStorage, RaceFormId) = {DraftIdOf(c) : c \in Callers}

\* both calls have returned, both drafts load, and the index lists only the
\* draft of caller B
C25_Witness ==
  /\ \A c \in Callers : At(c, "done")
  /\ \A c \in Callers : loadDraft(localStorage, RaceFormId, DraftIdOf(c)) # Null
  /\ \E c \in Callers : callers[c].raced
  /\ ListedIds(localStorage, RaceFormId) = {"d2"}

\* C28: from a successful submission until the user changes an answer, the
\* persisted state of the form holds empty values; the autosave timer does
\* not write the submitted answers back.
C28_ClearedAfterSubmit ==
  result.submitted =>
    LET saved == loadFormState(localStorage, formConfig.id)
    IN saved # Null /\ DOMAIN saved.values = {}

====
